---- MODULE Spec2Model ----
(***************************************************************************)
(* Model of scrape_and_build_ics.py: the extraction of event records from  *)
(* the events page (JSON-LD blocks, HTML cards as fallback), their         *)
(* deduplication and the synthesis of the iCalendar document.              *)
(*                                                                         *)
(* Representation.  A text (title, SUMMARY value) is a sequence of         *)
(* characters, each a one-token string ("LF" is the newline, "CR" the      *)
(* carriage return, "BSL" the backslash, "SP" the space).  A URL is a      *)
(* sequence of tokens (scheme, host, "/", segments).  A date token of the  *)
(* source is a record naming the strptime format its text has, with the    *)
(* day, hour and UTC offset it spells; a datetime is a number of hours,    *)
(* NoneDt standing for Python's None.  The calendar document is the        *)
(* sequence of its lines.  The SHA-1 digest of a UID is represented by the *)
(* seed it is the digest of: equal seeds give equal UIDs.                   *)
(***************************************************************************)
EXTENDS Integers, Sequences, FiniteSets, TLC

VARIABLES pc,       \* position in the run
          soup,     \* the parsed markup: JSON-LD script tags and link cards
          events,   \* the record list
          ics,      \* the calendar document, a sequence of lines
          today,    \* the UTC date of the run
          exc,      \* the exception that ended the run, "none" otherwise
          calls,    \* the extractors called so far
          perm,     \* a reordering of events (build_calendar on its own)
          ics2,     \* the document built from perm
          deduped,  \* the result of dedupe_events
          title,    \* the text handed to ics_escape
          escaped   \* the result of ics_escape

vars == <<pc, soup, events, ics, today, exc, calls, perm, ics2, deduped, title, escaped>>

\* ---------------------------------------------------------------- bounds
MaxBlocks == 3
MaxCards  == 1
MaxEvents == 3
MaxTitle  == 5
MaxDay    == 2

\* ------------------------------------------------------------- constants
NoneV  == <<"None">>
NoneDt == -1
datetime_max == 87649415

EVENTS_URL == <<"https:", "//www.wembleystadium.com", "/", "events">>
CAL_NAME   == <<"Wembley", "SP", "Stadium", "SP", "Events", "SP", "(Auto)">>
TZ         == "Europe/London"

Truthy(x) == x # NoneV /\ x # <<>>

\* --------------------------------------------------------- date tokens
Tok(form, day, hour, off) == [form |-> form, day |-> day, hour |-> hour, off |-> off]
NoneTok  == Tok("none", 0, 0, 0)
EmptyTok == Tok("empty", 0, 0, 0)
TruthyTok(t) == t.form # "none" /\ t.form # "empty"

fmts == << "%Y-%m-%dT%H:%M:%S%z", "%Y-%m-%dT%H:%M:%S", "%Y-%m-%dT%H:%M",
           "%Y-%m-%d %H:%M", "%d %b %Y %H:%M", "%d %B %Y %H:%M",
           "%d %b %Y", "%d %B %Y", "%Y-%m-%d" >>

BareDateFmts == {"%d %b %Y", "%d %B %Y", "%Y-%m-%d"}

\* datetime.strptime(s, f) succeeds exactly when the text has format f
strptime(s, f) == s.day * 24 + s.hour

RECURSIVE TryFormats(_, _)
TryFormats(s, i) ==
  IF i > Len(fmts) THEN NoneDt
  ELSE IF s.form = fmts[i]
       THEN LET dt0 == strptime(s, fmts[i])
                dt  == IF fmts[i] = "%Y-%m-%dT%H:%M:%S%z" THEN dt0 - s.off ELSE dt0
            IN IF fmts[i] \in BareDateFmts THEN NoneDt ELSE dt
       ELSE TryFormats(s, i + 1)

coerce_datetime(s) == TryFormats(s, 1)

\* ---------------------------------------------------------------- texts
Lower(c) == CASE c = "F" -> "f" [] c = "G" -> "g" [] OTHER -> c
lower(s) == [i \in 1..Len(s) |-> Lower(s[i])]

Whitespace == {"SP", "LF", "CR"}

RECURSIVE lstrip(_)
lstrip(s) == IF s # <<>> /\ Head(s) \in Whitespace THEN lstrip(Tail(s)) ELSE s
RECURSIVE rstrip(_)
rstrip(s) == IF s # <<>> /\ s[Len(s)] \in Whitespace
             THEN rstrip(SubSeq(s, 1, Len(s) - 1)) ELSE s
strip(s) == rstrip(lstrip(s))

\* html.unescape: a character reference becomes the character it names
Unescape1(c) == CASE c = "&amp;" -> "&" [] c = "&#13;" -> "CR" [] OTHER -> c
html_unescape(s) == [i \in 1..Len(s) |-> Unescape1(s[i])]

\* ------------------------------------------------------------ dedupe
\* the key without .lower()
KeyCaseSensitive(e) == <<e.title, IF TruthyTok(e.iso) THEN e.iso ELSE Tok("tbc", 0, 0, 0)>>

Key(e) == <<lower(e.title), IF TruthyTok(e.iso) THEN e.iso ELSE Tok("tbc", 0, 0, 0)>>

RECURSIVE DedupeLoop(_, _, _, _)
DedupeLoop(evs, i, seen, out) ==
  IF i > Len(evs) THEN out
  ELSE IF Key(evs[i]) \in seen
       THEN DedupeLoop(evs, i + 1, seen, out)
       ELSE DedupeLoop(evs, i + 1, seen \cup {Key(evs[i])}, Append(out, evs[i]))

dedupe_events(evs) == DedupeLoop(evs, 1, {}, <<>>)

\* ------------------------------------------------------- JSON-LD blocks
\* tbc taken from the missing date text instead of the missing datetime
RecTbcFromToken(t, dt, iso, url) ==
  [title |-> t, start_dt |-> dt, iso |-> iso, url |-> url, tbc |-> ~TruthyTok(iso)]

Rec(t, dt, iso, url) ==
  [title |-> t, start_dt |-> dt, iso |-> iso, url |-> url, tbc |-> (dt = NoneDt)]

\* for obj in items: ... items.extend(graph)   (the list grows while iterated)
RECURSIVE ExtendGraphs(_, _)
ExtendGraphs(items, i) ==
  IF i > Len(items) THEN items
  ELSE LET obj == items[i]
       IN IF obj.dict /\ obj.graphIsList /\ obj.graph # <<>>
          THEN ExtendGraphs(items \o obj.graph, i + 1)
          ELSE ExtendGraphs(items, i + 1)

\* the first loop: the value of `items` after the last tag, "unbound" if no
\* tag parsed
RECURSIVE TagLoop(_, _, _)
TagLoop(tags, i, items) ==
  IF i > Len(tags) THEN items
  ELSE IF ~tags[i].ok
       THEN TagLoop(tags, i + 1, items)
       ELSE LET data == tags[i].data
                its  == IF data.isList THEN data.list ELSE <<data.item>>
            IN TagLoop(tags, i + 1, [bound |-> TRUE, v |-> ExtendGraphs(its, 1)])

IsEventType(t) == (t.list /\ \E k \in 1..Len(t.v) : t.v[k] = "Event")
                  \/ (~t.list /\ t.v = <<"Event">>)

StartOf(it) == IF TruthyTok(it.startDate) THEN it.startDate
               ELSE IF TruthyTok(it.startTime) THEN it.startTime
               ELSE it.start

RECURSIVE ItemLoop(_, _, _)
ItemLoop(items, i, evs) ==
  IF i > Len(items) THEN evs
  ELSE LET it == items[i]
       IN IF ~it.dict THEN ItemLoop(items, i + 1, evs)
          ELSE IF IsEventType(it.type)
               THEN LET name  == strip(IF Truthy(it.name) THEN it.name ELSE <<>>)
                        url   == IF Truthy(it.url) THEN it.url ELSE EVENTS_URL
                        start == StartOf(it)
                        dt    == IF TruthyTok(start) THEN coerce_datetime(start) ELSE NoneDt
                    IN IF name = <<>> THEN ItemLoop(items, i + 1, evs)
                       ELSE ItemLoop(items, i + 1,
                                     Append(evs, Rec(html_unescape(name), dt, start, url)))
               ELSE ItemLoop(items, i + 1, evs)

\* result: [raised |-> TRUE] when `items` is read unbound, else the records
parse_jsonld_events(sp) ==
  LET items == TagLoop(sp.tags, 1, [bound |-> FALSE, v |-> <<>>])
  IN IF ~items.bound THEN [raised |-> TRUE, events |-> <<>>]
     ELSE [raised |-> FALSE, events |-> ItemLoop(items.v, 1, <<>>)]

\* ----------------------------------------------------------- HTML cards
StartsWithHttp(h) == h # <<>> /\ h[1] \in {"https:", "http:", "http-page"}
StartsWithSlash(h) == h # <<>> /\ h[1] = "/"

\* re.search(r"(\d{1,2}\s+\w+\s+\d{4}(?:\s+\d{1,2}:\d{2})?)", txt)
HumanForms == {"%d %b %Y %H:%M", "%d %B %Y %H:%M", "%d %b %Y", "%d %B %Y", "junk"}
re_search(txt) == IF txt.form \in HumanForms THEN txt ELSE EmptyTok

RECURSIVE CardLoop(_, _, _)
CardLoop(cards, i, evs) ==
  IF i > Len(cards) THEN evs
  ELSE LET a        == cards[i]
           ttl      == strip(a.text)
           href     == IF Truthy(a.href) THEN a.href ELSE <<>>
           url      == IF StartsWithHttp(href) THEN href
                       ELSE IF StartsWithSlash(href)
                            THEN <<"https:", "//www.wembleystadium.com">> \o href
                            ELSE EVENTS_URL
           date_str == re_search(a.container)
           dt       == IF TruthyTok(date_str) THEN coerce_datetime(date_str) ELSE NoneDt
       IN IF ttl # <<>>
          THEN CardLoop(cards, i + 1, Append(evs, Rec(ttl, dt, date_str, url)))
          ELSE CardLoop(cards, i + 1, evs)

parse_html_cards(sp) == CardLoop(sp.cards, 1, <<>>)

\* ------------------------------------------------------------ escaping
\* str.replace(old, new) for a one-character old
RECURSIVE replace(_, _, _)
replace(s, old, new) ==
  IF s = <<>> THEN <<>>
  ELSE (IF Head(s) = old THEN new ELSE <<Head(s)>>) \o replace(Tail(s), old, new)

\* the backslash replaced last, which escapes the escapes again
ics_escapeBackslashLast(s) ==
  replace(replace(replace(replace(s, "LF", <<"BSL", "n">>),
                          "COMMA", <<"BSL", "COMMA">>),
                  "SEMI", <<"BSL", "SEMI">>),
          "BSL", <<"BSL", "BSL">>)

ics_escape(s) ==
  replace(replace(replace(replace(s, "BSL", <<"BSL", "BSL">>),
                          "LF", <<"BSL", "n">>),
                  "COMMA", <<"BSL", "COMMA">>),
          "SEMI", <<"BSL", "SEMI">>)

\* --------------------------------------------------------------- vevent
Ln(name, par, text, a, b) == [name |-> name, par |-> par, text |-> text, a |-> a, b |-> b]

\* strftime("%Y%m%dT%H%M%S") and strftime("%Y%m%d")
strftime(dt) == [day |-> dt \div 24, hour |-> dt % 24]

\* f"{title}|{start_dt.isoformat() if start_dt else 'TBC'}|wembley"; the
\* literal 'TBC' is the pair (-1, -1), which no isoformat() gives
Seed(ttl, start_dt) ==
  IF start_dt # NoneDt
  THEN [title |-> ttl, day |-> strftime(start_dt).day, hour |-> strftime(start_dt).hour]
  ELSE [title |-> ttl, day |-> -1, hour |-> -1]

\* `now` is the UTC date utcnow() gives; the two reads of lines 138 and 140
\* are taken to fall on the same date.  The DESCRIPTION text is the source's
\* with its dash written in ASCII.
vevent(ttl, start_dt, url, tbc, now) ==
  LET seed   == Seed(ttl, start_dt)
      lines0 == << Ln("BEGIN", "VEVENT", <<>>, 0, 0),
                   Ln("UID", "@wembley-auto", seed.title, seed.day, seed.hour),
                   Ln("SUMMARY", "", ics_escape(ttl), 0, 0) >>
      lines1 == IF start_dt # NoneDt
                THEN lines0 \o
                     << Ln("DTSTART", "TZID=" \o TZ, <<>>,
                           strftime(start_dt).day, strftime(start_dt).hour),
                        Ln("DTEND", "TZID=" \o TZ, <<>>,
                           strftime(start_dt + 2).day, strftime(start_dt + 2).hour) >>
                ELSE lines0 \o
                     << Ln("DTSTART", "VALUE=DATE", <<>>, now, 0),
                        Ln("DTEND", "VALUE=DATE", <<>>, now + 1, 0),
                        Ln("CATEGORIES", "TBC", <<>>, 0, 0) >>
      lines2 == Append(lines1, Ln("URL", "", url, 0, 0))
      lines3 == IF tbc
                THEN Append(lines2, Ln("DESCRIPTION",
                                       "Time TBC - check event page for updates.", <<>>, 0, 0))
                ELSE lines2
  IN Append(lines3, Ln("END", "VEVENT", <<>>, 0, 0))

\* ------------------------------------------------------- build_calendar
\* the key without `or datetime.max`: None orders first
SortKeyNoneFirst(e) == e.start_dt

SortKey(e) == IF e.start_dt # NoneDt THEN e.start_dt ELSE datetime_max

\* list.sort(key=...) is stable: equal keys keep their order
RECURSIVE InsertSorted(_, _)
InsertSorted(sorted, e) ==
  IF sorted = <<>> THEN <<e>>
  ELSE IF SortKey(sorted[Len(sorted)]) <= SortKey(e) THEN Append(sorted, e)
       ELSE Append(InsertSorted(SubSeq(sorted, 1, Len(sorted) - 1), e), sorted[Len(sorted)])

RECURSIVE SortLoop(_, _, _)
SortLoop(evs, i, sorted) ==
  IF i > Len(evs) THEN sorted ELSE SortLoop(evs, i + 1, InsertSorted(sorted, evs[i]))

\* the sort left out
sortSkipped(evs) == evs

sort(evs) == SortLoop(evs, 1, <<>>)

\* the envelope without its METHOD line
EnvelopeNoMethod ==
  << Ln("BEGIN", "VCALENDAR", <<>>, 0, 0),
     Ln("VERSION", "2.0", <<>>, 0, 0),
     Ln("PRODID", "-//Wembley Auto Feed//EN", <<>>, 0, 0),
     Ln("X-WR-CALNAME", "", ics_escape(CAL_NAME), 0, 0),
     Ln("CALSCALE", "GREGORIAN", <<>>, 0, 0),
     Ln("X-WR-TIMEZONE", TZ, <<>>, 0, 0) >>

Envelope ==
  << Ln("BEGIN", "VCALENDAR", <<>>, 0, 0),
     Ln("VERSION", "2.0", <<>>, 0, 0),
     Ln("PRODID", "-//Wembley Auto Feed//EN", <<>>, 0, 0),
     Ln("X-WR-CALNAME", "", ics_escape(CAL_NAME), 0, 0),
     Ln("CALSCALE", "GREGORIAN", <<>>, 0, 0),
     Ln("X-WR-TIMEZONE", TZ, <<>>, 0, 0),
     Ln("METHOD", "PUBLISH", <<>>, 0, 0) >>

RECURSIVE BodyLoop(_, _, _, _)
BodyLoop(evs, i, body, now) ==
  IF i > Len(evs) THEN body
  ELSE BodyLoop(evs, i + 1,
                body \o vevent(evs[i].title, evs[i].start_dt, evs[i].url, evs[i].tbc, now),
                now)

build_calendar(evs, now) ==
  Append(BodyLoop(sort(dedupe_events(evs)), 1, Envelope, now),
         Ln("END", "VCALENDAR", <<>>, 0, 0))

\* ---------------------------------------------------------------- inputs
SeqUpTo(S, n) == UNION {[1..k -> S] : k \in 0..n}

UrlF     == <<"https:", "//www.wembleystadium.com", "/", "events", "/", "f">>
PathF    == <<"/", "events", "/", "f">>
HttpRel  == <<"http-page", ".html">>
OtherRel == <<"tickets">>

TEvent     == [list |-> FALSE, v |-> <<"Event">>]
TEventList == [list |-> TRUE,  v |-> <<"Thing", "Event">>]
TOrg       == [list |-> FALSE, v |-> <<"Organization">>]

NonDict == [dict |-> FALSE, type |-> TOrg, name |-> NoneV, url |-> NoneV,
            startDate |-> NoneTok, startTime |-> NoneTok, start |-> NoneTok,
            graphIsList |-> FALSE, graph |-> <<>>]

Item(type, name, url, startDate, startTime, start, graph) ==
  [dict |-> TRUE, type |-> type, name |-> name, url |-> url,
   startDate |-> startDate, startTime |-> startTime, start |-> start,
   graphIsList |-> TRUE, graph |-> graph]

ItemA == Item(TEvent, <<"SP", "F">>, UrlF,
              Tok("%Y-%m-%dT%H:%M:%S", 1, 15, 0), NoneTok, NoneTok, <<>>)
ItemB == Item(TEventList, <<"f">>, PathF,
              EmptyTok, Tok("%Y-%m-%dT%H:%M:%S%z", 1, 16, 1), NoneTok, <<>>)
ItemC == Item(TEvent, <<"G", "COMMA", "&amp;">>, NoneV,
              NoneTok, NoneTok, Tok("%Y-%m-%d", MaxDay, 0, 0), <<>>)
ItemD == Item(TEvent, <<"G", "COMMA", "&amp;">>, <<>>,
              Tok("TBA", 0, 0, 0), NoneTok, NoneTok, <<>>)
ItemE == Item(TEvent, <<"SP">>, UrlF,
              Tok("%Y-%m-%dT%H:%M", 1, 10, 0), NoneTok, NoneTok, <<>>)
ItemInner == Item(TOrg, <<"F">>, UrlF, NoneTok, NoneTok, NoneTok, <<ItemD>>)
ItemGraph == Item(TOrg, NoneV, NoneV, NoneTok, NoneTok, NoneTok, <<ItemA, ItemInner>>)

Single(it) == [isList |-> FALSE, list |-> <<>>, item |-> it]
List(its)  == [isList |-> TRUE,  list |-> its,  item |-> NonDict]

Malformed == [ok |-> FALSE, data |-> List(<<>>)]
Parsed(d) == [ok |-> TRUE, data |-> d]

BlockSet == { Malformed,
              Parsed(Single(ItemA)), Parsed(Single(ItemGraph)), Parsed(Single(NonDict)),
              Parsed(List(<<ItemB, ItemC>>)), Parsed(List(<<NonDict, ItemE>>)),
              Parsed(List(<<>>)) }

Card(text, href, container) == [text |-> text, href |-> href, container |-> container]

CardSet == { Card(<<"F", "SP">>, PathF, Tok("%d %b %Y %H:%M", 1, 15, 0)),
             Card(<<"G", "COMMA">>, NoneV, Tok("%d %B %Y", MaxDay, 0, 0)),
             Card(<<>>, UrlF, Tok("junk", 0, 0, 0)),
             Card(<<"f">>, HttpRel, Tok("%Y-%m-%d", 1, 0, 0)),
             Card(<<"f">>, OtherRel, Tok("%Y-%m-%d %H:%M", 1, 15, 0)) }

SoupSet == { [tags |-> t, cards |-> c] :
             t \in SeqUpTo(BlockSet, MaxBlocks), c \in SeqUpTo(CardSet, MaxCards) }

NoSoup == [tags |-> <<>>, cards |-> <<>>]

\* ----------------------------------------------------- main (the pipeline)
Init ==
  /\ pc = "main"
  /\ soup \in SoupSet
  /\ today \in 1..MaxDay
  /\ events = <<>>
  /\ ics = <<>>
  /\ exc = "none"
  /\ calls = <<>>
  /\ perm = <<>> /\ ics2 = <<>> /\ deduped = <<>> /\ title = <<>> /\ escaped = <<>>

\* events = parse_jsonld_events(soup)
ParseJsonld ==
  /\ pc = "main"
  /\ calls' = Append(calls, "parse_jsonld_events")
  /\ LET r == parse_jsonld_events(soup)
     IN IF r.raised
        THEN /\ pc' = "raised"
             /\ exc' = "UnboundLocalError"
             /\ events' = events
        ELSE /\ pc' = IF r.events = <<>> THEN "fallback" ELSE "build"
             /\ exc' = exc
             /\ events' = r.events
  /\ UNCHANGED <<soup, ics, today, perm, ics2, deduped, title, escaped>>

\* if not events: events = parse_html_cards(soup)
ParseHtmlCards ==
  /\ pc = "fallback"
  /\ calls' = Append(calls, "parse_html_cards")
  /\ events' = parse_html_cards(soup)
  /\ pc' = "build"
  /\ UNCHANGED <<soup, ics, today, exc, perm, ics2, deduped, title, escaped>>

\* ics = build_calendar(events)
BuildCalendar ==
  /\ pc = "build"
  /\ ics' = build_calendar(events, today)
  /\ pc' = "done"
  /\ UNCHANGED <<soup, events, today, exc, calls, perm, ics2, deduped, title, escaped>>

Next == ParseJsonld \/ ParseHtmlCards \/ BuildCalendar

Spec == Init /\ [][Next]_vars

\* ------------------------------------- build_calendar on a record list
RecSet ==
  { Rec(<<"F">>, coerce_datetime(Tok("%Y-%m-%dT%H:%M:%S", 1, 15, 0)),
        Tok("%Y-%m-%dT%H:%M:%S", 1, 15, 0), UrlF),
    Rec(<<"F">>, coerce_datetime(Tok("%Y-%m-%dT%H:%M:%S%z", 1, 16, 1)),
        Tok("%Y-%m-%dT%H:%M:%S%z", 1, 16, 1), UrlF),
    Rec(<<"f">>, coerce_datetime(Tok("%Y-%m-%dT%H:%M:%S", 1, 15, 0)),
        Tok("%Y-%m-%dT%H:%M:%S", 1, 15, 0), EVENTS_URL),
    Rec(<<"F">>, coerce_datetime(Tok("%Y-%m-%dT%H:%M", 1, 10, 0)),
        Tok("%Y-%m-%dT%H:%M", 1, 10, 0), UrlF),
    Rec(<<"G">>, coerce_datetime(Tok("%Y-%m-%d", 1, 0, 0)),
        Tok("%Y-%m-%d", 1, 0, 0), EVENTS_URL),
    Rec(<<"G">>, NoneDt, NoneTok, UrlF),
    Rec(<<"G">>, coerce_datetime(Tok("tbc", 0, 0, 0)), Tok("tbc", 0, 0, 0), EVENTS_URL),
    Rec(<<"G">>, coerce_datetime(Tok("%d %b %Y %H:%M", MaxDay, 20, 0)),
        Tok("%d %b %Y %H:%M", MaxDay, 20, 0), EVENTS_URL) }

Reorderings(n) == {f \in [1..n -> 1..n] : \A i, j \in 1..n : i # j => f[i] # f[j]}

InitCal ==
  /\ pc = "cal"
  /\ events \in SeqUpTo(RecSet, MaxEvents)
  /\ perm \in {[i \in 1..Len(events) |-> events[f[i]]] : f \in Reorderings(Len(events))}
  /\ today = MaxDay
  /\ soup = NoSoup /\ ics = <<>> /\ ics2 = <<>> /\ deduped = <<>>
  /\ exc = "none" /\ calls = <<>> /\ title = <<>> /\ escaped = <<>>

\* dedupe_events(events)
Dedupe ==
  /\ pc = "cal"
  /\ deduped' = dedupe_events(events)
  /\ pc' = "deduped"
  /\ UNCHANGED <<soup, events, ics, today, exc, calls, perm, ics2, title, escaped>>

\* build_calendar(events) and build_calendar(perm), the same day
Build ==
  /\ pc = "deduped"
  /\ ics' = build_calendar(events, today)
  /\ ics2' = build_calendar(perm, today)
  /\ pc' = "built"
  /\ UNCHANGED <<soup, events, today, exc, calls, perm, deduped, title, escaped>>

NextCal == Dedupe \/ Build

SpecCal == InitCal /\ [][NextCal]_vars

\* ------------------------------------------------ ics_escape on a title
Chars == {"F", "n", "COMMA", "SEMI", "BSL", "LF", "CR"}

InitEsc ==
  /\ pc = "esc"
  /\ title \in SeqUpTo(Chars, MaxTitle)
  /\ today = MaxDay
  /\ soup = NoSoup /\ events = <<>> /\ ics = <<>> /\ ics2 = <<>> /\ deduped = <<>>
  /\ exc = "none" /\ calls = <<>> /\ perm = <<>> /\ escaped = <<>>

\* ics_escape(title)
Escape ==
  /\ pc = "esc"
  /\ escaped' = ics_escape(title)
  /\ pc' = "escaped"
  /\ UNCHANGED <<soup, events, ics, today, exc, calls, perm, ics2, deduped, title>>

\* vevent(title, None, EVENTS_URL, True)
Render ==
  /\ pc = "escaped"
  /\ ics' = vevent(title, NoneDt, EVENTS_URL, TRUE, today)
  /\ pc' = "rendered"
  /\ UNCHANGED <<soup, events, today, exc, calls, perm, ics2, deduped, title, escaped>>

NextEsc == Escape \/ Render

SpecEsc == InitEsc /\ [][NextEsc]_vars

\* =================================================================
\* Properties of the pipeline (Spec)
\* =================================================================
Range(q) == {q[i] : i \in 1..Len(q)}

NoParseableBlock(sp) == \A i \in 1..Len(sp.tags) : ~sp.tags[i].ok
HasMalformedBlock(sp) == \E i \in 1..Len(sp.tags) : ~sp.tags[i].ok

\* the structured extractor has been run and has no record to give: the
\* markup has no parseable block at all, or the extractor returns the empty list
FoundNoEvent ==
  /\ calls # <<>>
  /\ \/ NoParseableBlock(soup)
     \/ (~parse_jsonld_events(soup).raised /\ parse_jsonld_events(soup).events = <<>>)

\* C1: whenever parse_jsonld_events finds no Event record (no ld+json block,
\* or only unparseable ones, included) the run does not raise, it runs
\* parse_html_cards and builds the calendar from its records; and
\* parse_html_cards runs only in that case.
C1_FallbackWithoutRaise ==
  /\ (FoundNoEvent => pc # "raised")
  /\ (FoundNoEvent /\ pc \in {"build", "done"} =>
         calls = <<"parse_jsonld_events", "parse_html_cards">>
         /\ events = parse_html_cards(soup))
  /\ (FoundNoEvent /\ pc = "done" => ics = build_calendar(parse_html_cards(soup), today))
  /\ (Len(calls) = 2 => FoundNoEvent)

\* the records of the named Event objects of one parseable block (top-level
\* item, list items, @graph members)
NamedEventsOf(tag) ==
  LET its == IF tag.data.isList THEN tag.data.list ELSE <<tag.data.item>>
  IN Range(ItemLoop(ExtendGraphs(its, 1), 1, <<>>))

\* C2: a block that fails to parse is skipped without raising, and every
\* named Event object of every parseable block of the same markup yields a
\* record, wherever the malformed block stands.
C2_MalformedBlockSkipped ==
  (calls = <<"parse_jsonld_events">> /\ HasMalformedBlock(soup)
     /\ ~NoParseableBlock(soup)) =>
     /\ pc # "raised"
     /\ \A i \in 1..Len(soup.tags) :
           soup.tags[i].ok => NamedEventsOf(soup.tags[i]) \subseteq Range(events)

\* the VEVENT blocks of a document, in order
RECURSIVE Blocks(_, _, _, _)
Blocks(doc, i, cur, acc) ==
  IF i > Len(doc) THEN acc
  ELSE IF doc[i].name = "BEGIN" /\ doc[i].par = "VEVENT"
       THEN Blocks(doc, i + 1, <<doc[i]>>, acc)
       ELSE IF doc[i].name = "END" /\ doc[i].par = "VEVENT"
            THEN Blocks(doc, i + 1, <<>>, Append(acc, Append(cur, doc[i])))
            ELSE IF cur # <<>> THEN Blocks(doc, i + 1, Append(cur, doc[i]), acc)
                 ELSE Blocks(doc, i + 1, cur, acc)

VEvents(doc) == Blocks(doc, 1, <<>>, <<>>)

Names(b) == [i \in 1..Len(b) |-> b[i].name]

TimedShape(b, start) ==
  /\ Names(b) = <<"BEGIN", "UID", "SUMMARY", "DTSTART", "DTEND", "URL", "END">>
  /\ b[4].par = "TZID=Europe/London" /\ b[5].par = "TZID=Europe/London"
  /\ b[4].a * 24 + b[4].b = start
  /\ b[5].a * 24 + b[5].b = start + 2
  /\ b[4].b \in 0..23 /\ b[5].b \in 0..23

PlaceholderShape(b, day) ==
  /\ Names(b) = <<"BEGIN", "UID", "SUMMARY", "DTSTART", "DTEND", "CATEGORIES",
                  "URL", "DESCRIPTION", "END">>
  /\ b[4].par = "VALUE=DATE" /\ b[4].a = day
  /\ b[5].par = "VALUE=DATE" /\ b[5].a = day + 1
  /\ b[6].par = "TBC"
  /\ b[8].par = "Time TBC - check event page for updates."

\* the identity key: lowercased title, source date token or the marker "tbc"
IdentityKey(e) ==
  << [i \in 1..Len(e.title) |-> IF e.title[i] = "F" THEN "f"
                                 ELSE IF e.title[i] = "G" THEN "g" ELSE e.title[i]],
     IF e.iso.form \in {"none", "empty"} THEN "tbc" ELSE e.iso.form,
     IF e.iso.form \in {"none", "empty"} THEN 0 ELSE e.iso.day,
     IF e.iso.form \in {"none", "empty"} THEN 0 ELSE e.iso.hour,
     IF e.iso.form \in {"none", "empty"} THEN 0 ELSE e.iso.off >>

\* the record a VEVENT block was rendered from: same title seed and URL
Renders(b, e) ==
  /\ b[2].text = e.title
  /\ b[Len(b) - 1 - (IF b[Len(b) - 1].name = "DESCRIPTION" THEN 1 ELSE 0)].text = e.url
  /\ (b[2].a = -1) = (e.start_dt = NoneDt)
  /\ (e.start_dt # NoneDt => b[2].a * 24 + b[2].b = e.start_dt)

IsAbsoluteUrl(u) ==
  /\ Len(u) >= 2
  /\ u[1] \in {"https:", "http:"}
  /\ u[2] = "//www.wembleystadium.com"

\* C7: every record of either extractor has an absolute url with a scheme,
\* whatever the source's url field or href was.
C7_UrlAbsolute ==
  pc \in {"build", "done"} => \A i \in 1..Len(events) : IsAbsoluteUrl(events[i].url)

\* =================================================================
\* Properties of dedupe_events and build_calendar (SpecCal)
\* =================================================================
\* the positions of events that hold the first record of their key
Firsts == {i \in 1..Len(events) :
             \A j \in 1..(i - 1) : IdentityKey(events[j]) # IdentityKey(events[i])}

NthFirst(k) == CHOOSE i \in Firsts : Cardinality({j \in Firsts : j < i}) = k - 1

\* C3: dedupe_events keeps exactly the first record of each identity key, in
\* order of first appearance: no two records of the output share a key, the
\* output is a subsequence of the input, and deduplicating the output again
\* returns it unchanged.
C3_DedupeFirstWins ==
  pc \in {"deduped", "built"} =>
     /\ Len(deduped) = Cardinality(Firsts)
     /\ \A k \in 1..Len(deduped) : deduped[k] = events[NthFirst(k)]
     /\ \A i, j \in 1..Len(deduped) :
           i # j => IdentityKey(deduped[i]) # IdentityKey(deduped[j])
     /\ dedupe_events(deduped) = deduped

C3_Witness ==
  /\ pc = "deduped"
  /\ Len(events) = 3 /\ Len(deduped) = 2
  /\ events[1].title = events[3].title /\ events[1].iso = events[3].iso
  /\ events[2].title # events[1].title
  /\ deduped = <<events[1], events[2]>>

\* the DTSTART lines of a document, in order
Starts(doc) == SelectSeq(doc, LAMBDA l : l.name = "DTSTART")
Timed(l) == l.par = "TZID=Europe/London"

\* C4: in the document the entries with a known start are in ascending order
\* of start, and every entry without a start comes after all of them.
C4_SortedUnconfirmedLast ==
  pc = "built" =>
     \A i, j \in 1..Len(Starts(ics)) :
        i < j =>
          LET x == Starts(ics)[i]
              y == Starts(ics)[j]
          IN /\ (Timed(x) /\ Timed(y) => x.a * 24 + x.b <= y.a * 24 + y.b)
             /\ (~Timed(x) => ~Timed(y))

C4_Witness ==
  /\ pc = "built"
  /\ Len(events) = 3
  /\ events[1].start_dt = NoneDt
  /\ events[2].start_dt # NoneDt /\ events[3].start_dt # NoneDt
  /\ events[3].start_dt < events[2].start_dt
  /\ Len(Starts(ics)) = 3
  /\ Timed(Starts(ics)[1]) /\ Timed(Starts(ics)[2]) /\ ~Timed(Starts(ics)[3])

\* C5 as stated: two record lists that are permutations of one another give
\* the identical document on the same day, also when records share a start,
\* are all unconfirmed, or share an identity key.
C5_AnyOrderSameDocument ==
  pc = "built" => ics = ics2

\* no two different records share an identity key, a start, or the lack of one
NoTies ==
  \A i, j \in 1..Len(events) :
     (IdentityKey(events[i]) = IdentityKey(events[j])
        \/ events[i].start_dt = events[j].start_dt) => events[i] = events[j]

\* C5 amended: two record lists that are permutations of one another give the
\* identical document on the same day provided no two different records
\* share an identity key or a start (or are both unconfirmed).
C5_SameDocumentWithoutTies ==
  (pc = "built" /\ NoTies) => ics = ics2

C5_Witness ==
  /\ pc = "built" /\ NoTies
  /\ Len(events) = 3
  /\ perm # events
  /\ Cardinality(Range(events)) = 3
  /\ ics = ics2

ExpectedEmptyDocument ==
  << Ln("BEGIN", "VCALENDAR", <<>>, 0, 0),
     Ln("VERSION", "2.0", <<>>, 0, 0),
     Ln("PRODID", "-//Wembley Auto Feed//EN", <<>>, 0, 0),
     Ln("X-WR-CALNAME", "",
        <<"Wembley", "SP", "Stadium", "SP", "Events", "SP", "(Auto)">>, 0, 0),
     Ln("CALSCALE", "GREGORIAN", <<>>, 0, 0),
     Ln("X-WR-TIMEZONE", "Europe/London", <<>>, 0, 0),
     Ln("METHOD", "PUBLISH", <<>>, 0, 0),
     Ln("END", "VCALENDAR", <<>>, 0, 0) >>

\* C9: the document has zero VEVENT blocks exactly when the record list is
\* empty, and for the empty list it is the well-formed envelope: from
\* BEGIN:VCALENDAR, with version, product id, name, scale, timezone and
\* METHOD:PUBLISH, to END:VCALENDAR.
C9_EmptyIffNoRecords ==
  pc = "built" =>
     /\ (Len(VEvents(ics)) = 0) = (events = <<>>)
     /\ (events = <<>> => ics = ExpectedEmptyDocument)
     /\ ics[1] = Ln("BEGIN", "VCALENDAR", <<>>, 0, 0)
     /\ ics[Len(ics)] = Ln("END", "VCALENDAR", <<>>, 0, 0)

C9_Witness ==
  pc = "built" /\ events = <<>> /\ Len(ics) = 8 /\ Len(VEvents(ics)) = 0

Uids(doc) == SelectSeq(doc, LAMBDA l : l.name = "UID")

\* C10: no two VEVENT entries of a document carry the same UID.
C10_UidsDistinct ==
  pc = "built" =>
     \A i, j \in 1..Len(Uids(ics)) : i # j => Uids(ics)[i] # Uids(ics)[j]

\* =================================================================
\* Properties of ics_escape (SpecEsc)
\* =================================================================
EscapeOf(c) ==
  CASE c = "BSL"   -> <<"BSL", "BSL">>
    [] c = "LF"    -> <<"BSL", "n">>
    [] c = "COMMA" -> <<"BSL", "COMMA">>
    [] c = "SEMI"  -> <<"BSL", "SEMI">>
    [] OTHER       -> <<c>>

RECURSIVE EscapedText(_)
EscapedText(s) == IF s = <<>> THEN <<>> ELSE EscapeOf(Head(s)) \o EscapedText(Tail(s))

ControlChars == {"LF", "CR"}

SummaryOf(doc) == SelectSeq(doc, LAMBDA l : l.name = "SUMMARY")

\* C8 as stated: every backslash, newline, comma and semicolon of the title
\* is escaped and no unescaped control character remains, so the SUMMARY
\* line holds no raw line break taken from the title.
C8_NoControlCharacterLeft ==
  /\ (pc \in {"escaped", "rendered"} =>
        /\ escaped = EscapedText(title)
        /\ \A i \in 1..Len(escaped) : escaped[i] \notin ControlChars)
  /\ (pc = "rendered" =>
        \A l \in Range(SummaryOf(ics)) :
           \A i \in 1..Len(l.text) : l.text[i] \notin ControlChars)

\* C8 amended: every backslash, newline, comma and semicolon of the title is
\* escaped and no raw newline (LF) remains, so the SUMMARY line holds no raw
\* LF taken from the title; any other character, a carriage return included,
\* is passed through unchanged.
C8_FourCharactersEscaped ==
  /\ (pc \in {"escaped", "rendered"} =>
        /\ escaped = EscapedText(title)
        /\ \A i \in 1..Len(escaped) : escaped[i] # "LF"
        /\ Cardinality({i \in 1..Len(escaped) : escaped[i] = "CR"})
             = Cardinality({i \in 1..Len(title) : title[i] = "CR"}))
  /\ (pc = "rendered" =>
        /\ Len(SummaryOf(ics)) = 1
        /\ SummaryOf(ics)[1].text = EscapedText(title)
        /\ \A i \in 1..Len(SummaryOf(ics)[1].text) : SummaryOf(ics)[1].text[i] # "LF")

C8_Witness ==
  /\ pc = "rendered"
  /\ title = <<"COMMA", "SEMI", "BSL", "LF", "CR">>
  /\ escaped = <<"BSL", "COMMA", "BSL", "SEMI", "BSL", "BSL", "BSL", "n", "CR">>
  /\ SummaryOf(ics)[1].text = escaped

====
